---- MODULE Spec2Model ----
(***************************************************************************)
(* The async-callable capability tiers of library/core/src/ops/            *)
(* async_function.rs: the traits AsyncFn : AsyncFnMut : AsyncFnOnce, the   *)
(* three blanket implementations of `mod impls` for ordinary callables     *)
(* whose result is a future, and the AsyncFnKindHelper projection.         *)
(*                                                                         *)
(* A behaviour is one of two scenarios.  In the callable scenario one      *)
(* ordinary callable type `ty` is in scope with two equal values of it:    *)
(* `fa` is only ever used through the async tiers, `fo` only through the   *)
(* ordinary call operators.  Call sites are type-checked (an               *)
(* implementation is selected, or the site is refused) and accepted calls  *)
(* run.  In the closure scenario one native async closure `clo` is in      *)
(* scope and call sites reconcile its kind against a goal kind.            *)
(***************************************************************************)
EXTENDS Integers, Sequences, FiniteSets, TLC

VARIABLES ty, fa, fo, refused, clo, recon, crefused

vars == <<ty, fa, fo, refused, clo, recon, crefused>>

\* Calls performed in one behaviour, over both values together.
MaxCalls == 4
\* Captured variables of a closure.
MaxCaps == 2

NoCallable == [none |-> "callable"]
NoClosure == [none |-> "closure"]

(***************************************************************************)
(* Types.                                                                  *)
(***************************************************************************)
AsyncTraits == {"AsyncFn", "AsyncFnMut", "AsyncFnOnce"}

\* The ordinary call traits one type implements; Fn : FnMut : FnOnce.
OrdKinds == {{"Fn", "FnMut", "FnOnce"}, {"FnMut", "FnOnce"}, {"FnOnce"}}

ArgTypes == {"()", "(i32,)"}

I32Values == {0, 5}

RetTypes == {<<"Future", "bool">>, <<"Future", "i32">>, <<"Plain", "i32">>}

CallableTypes == [ord : OrdKinds, args : ArgTypes, ret : RetTypes]

\* The argument tuples of an argument-tuple type.
ArgTuples(t) == IF t.args = "()" THEN {<<>>} ELSE {<<n>> : n \in I32Values}

\* `R: Future`
IsFuture(r) == r[1] = "Future"

\* `<R as Future>::Output`
FutureOutput(r) == r[2]

(***************************************************************************)
(* The ordinary callable: its body and the three ordinary call operators.  *)
(* A value is [st, alive, calls, log, via]: its captured state, whether it *)
(* is still owned by the caller (not moved), how often its body ran, what  *)
(* each run was given and returned, and the call sites it went through.    *)
(***************************************************************************)
Fresh == [st |-> 0, alive |-> TRUE, calls |-> 0, log |-> <<>>, via |-> <<>>]

ArgVal(args) == IF args = <<>> THEN 0 ELSE args[1]

\* The value the body returns: a value of the callable's result type.
BodyResult(t, st, args) == [type |-> t.ret, val |-> st + ArgVal(args)]

\* The captured state after the body ran; through `&self` it is unchanged.
BodyState(t, st, args) == IF "Fn" \in t.ord THEN st ELSE st + ArgVal(args) + 1

Invoke(t, f, args, op) ==
    [f EXCEPT !.st = BodyState(t, f.st, args),
              !.calls = @ + 1,
              !.log = Append(@, [op |-> op, args |-> args, pre |-> f.st,
                                 res |-> BodyResult(t, f.st, args)])]

\* Fn::call(&self, args)
call(t, f, args) == Invoke(t, f, args, "call")

\* FnMut::call_mut(&mut self, args)
call_mut(t, f, args) == Invoke(t, f, args, "call_mut")

\* FnOnce::call_once(self, args)
call_once(t, f, args) == [Invoke(t, f, args, "call_once") EXCEPT !.alive = FALSE]

(***************************************************************************)
(* mod impls: the blanket implementations.                                 *)
(***************************************************************************)
\* A slip: the callable is evaluated twice for one async call.
async_call_twice(t, f, args) == call(t, call(t, f, args), args)

async_call(t, f, args) == call(t, f, args)

\* A slip: the by-unique-reference tier forwards to the consuming tier.
async_call_mut_by_value(t, f, args) == call_once(t, f, args)

async_call_mut(t, f, args) == call_mut(t, f, args)

\* A slip: the consuming tier forwards to a borrowing tier.
async_call_once_by_ref(t, f, args) == call_mut(t, f, args)

async_call_once(t, f, args) == call_once(t, f, args)

CallFuture(t) == t.ret

CallMutFuture(t) == t.ret

CallOnceFuture(t) == t.ret

\* A slip: the ordinary result type itself, not its Future::Output.
OutputIsFuture(t) == t.ret

Output(t) == FutureOutput(t.ret)

\* A slip: the AsyncFnOnce block bounded by F: Fn<A>.
ImplsOnceNeedsFn ==
    {[trait |-> "AsyncFn", bound |-> "Fn", method |-> "async_call"],
     [trait |-> "AsyncFnMut", bound |-> "FnMut", method |-> "async_call_mut"],
     [trait |-> "AsyncFnOnce", bound |-> "Fn", method |-> "async_call_once"]}

\* A slip: a second, overlapping AsyncFnOnce block for F: FnMut<A>.
ImplsOverlapping ==
    {[trait |-> "AsyncFn", bound |-> "Fn", method |-> "async_call"],
     [trait |-> "AsyncFnMut", bound |-> "FnMut", method |-> "async_call_mut"],
     [trait |-> "AsyncFnOnce", bound |-> "FnOnce", method |-> "async_call_once"],
     [trait |-> "AsyncFnOnce", bound |-> "FnMut", method |-> "async_call_mut"]}

\* One record per impl block: the trait, the bound on F, the method.
Impls ==
    {[trait |-> "AsyncFn", bound |-> "Fn", method |-> "async_call"],
     [trait |-> "AsyncFnMut", bound |-> "FnMut", method |-> "async_call_mut"],
     [trait |-> "AsyncFnOnce", bound |-> "FnOnce", method |-> "async_call_once"]}

\* A slip: the bound on F dropped; any callable with a future result.
AppliesAnyCallable(i, t) == IsFuture(t.ret)

\* A slip: the where-clause `Output: Future` dropped.
AppliesAnyResult(i, t) == i.bound \in t.ord

\* The where-clauses of an impl block hold of type t.
Applies(i, t) == i.bound \in t.ord /\ IsFuture(t.ret)

\* The implementations a call site requiring `goal` of type t may select.
Candidates(t, goal) == {i \in Impls : i.trait = goal /\ Applies(i, t)}

Implements(t, trait) == Candidates(t, trait) # {}

Offered(t) == {tr \in AsyncTraits : Implements(t, tr)}

\* The method of the selected implementation, run on value f.
Dispatch(i, t, f, args) ==
    CASE i.method = "async_call" -> async_call(t, f, args)
      [] i.method = "async_call_mut" -> async_call_mut(t, f, args)
      [] i.method = "async_call_once" -> async_call_once(t, f, args)

(***************************************************************************)
(* The declared hierarchy: trait AsyncFn: AsyncFnMut, AsyncFnMut:          *)
(* AsyncFnOnce.                                                            *)
(***************************************************************************)
\* A slip: the hierarchy declared the other way round.
SupertraitReversed == [AsyncFn |-> {}, AsyncFnMut |-> {"AsyncFn"},
                       AsyncFnOnce |-> {"AsyncFnMut"}]

Supertrait == [AsyncFn |-> {"AsyncFnMut"}, AsyncFnMut |-> {"AsyncFnOnce"},
               AsyncFnOnce |-> {}]

RECURSIVE Implied(_)
\* A trait with everything its supertrait bounds imply.
Implied(tr) == {tr} \cup UNION {Implied(s) : s \in Supertrait[tr]}

(***************************************************************************)
(* mod internal_implementation_detail: AsyncFnKindHelper<GoalKind>.  Self  *)
(* is the closure's kind type, ?0 while it is still being inferred.        *)
(***************************************************************************)
KindTys == {"i8", "i16", "i32"}

\* The async trait a closure of kind k implements by its definition.
KindTrait(k) ==
    CASE k = "i8" -> "AsyncFn"
      [] k = "i16" -> "AsyncFnMut"
      [] k = "i32" -> "AsyncFnOnce"

\* The goal is within the capabilities of a closure of kind k.
ClosureImplements(k, goal) == KindTrait(goal) \in Implied(KindTrait(k))

CaptureModes == {"move", "ref"}

BaseTypes == {"T", "U"}

Regions == {"'c", "'d"}

Captures == [mode : CaptureModes, base : BaseTypes]

RECURSIVE SeqsUpTo(_, _)
SeqsUpTo(S, n) ==
    IF n = 0 THEN {<<>>}
    ELSE LET shorter == SeqsUpTo(S, n - 1)
         IN  shorter \cup {Append(q, x) : q \in shorter, x \in S}

\* The closure's own upvar types: a by-reference capture borrows for 'x.
UpvarTys(caps) ==
    [i \in DOMAIN caps |->
        IF caps[i].mode = "ref" THEN <<"&", "'x", caps[i].base>>
        ELSE <<caps[i].base>>]

\* The result of `for<'env> fn() -> (&'env T, ...)`, 'env still bound.
BorrowedUpvarsAsFnPtr(caps) ==
    [i \in DOMAIN caps |->
        IF caps[i].mode = "ref" THEN <<"&", "'env", caps[i].base>>
        ELSE <<caps[i].base>>]

\* The bound region 'env instantiated with a region.
InstantiateEnv(tys, region) ==
    [i \in DOMAIN tys |->
        IF tys[i][1] = "&" /\ tys[i][2] = "'env" THEN <<"&", region, tys[i][3]>>
        ELSE tys[i]]

\* A slip: the closure's own upvars, their regions not rebound.
UpvarsNotRebound(goal, closure_env, inputs, upvars, borrowed) == upvars

\* <Self as AsyncFnKindHelper<GoalKind>>::Upvars<'closure_env, Inputs,
\*     Upvars, BorrowedUpvarsAsFnPtr>
Upvars(goal, closure_env, inputs, upvars, borrowed) ==
    IF goal = "i32" THEN upvars ELSE InstantiateEnv(borrowed, closure_env)

Closures == [kind : KindTys \cup {"?0"}, inputs : {"(i32,)"},
             caps : SeqsUpTo(Captures, MaxCaps)]

(***************************************************************************)
(* The state machine.                                                      *)
(***************************************************************************)
Init ==
    /\ fa = Fresh
    /\ fo = Fresh
    /\ refused = {}
    /\ recon = {}
    /\ crefused = {}
    /\ \/ ty \in CallableTypes /\ clo = NoClosure
       \/ ty = NoCallable /\ clo \in Closures

InCallable == ty # NoCallable

InClosure == clo # NoClosure

Budget == Len(fa.log) + Len(fo.log) < MaxCalls

\* An accepted call site requiring `goal`: the selected implementation runs.
AsyncSite(goal, args) ==
    /\ Budget /\ fa.alive
    /\ \E i \in Candidates(ty, goal) :
          fa' = [Dispatch(i, ty, fa, args) EXCEPT
                    !.via = Append(@, [goal |-> goal, impl |-> i, args |-> args])]
    /\ UNCHANGED <<ty, fo, refused, clo, recon, crefused>>

AsyncCall == InCallable /\ \E args \in ArgTuples(ty) : AsyncSite("AsyncFn", args)

AsyncCallMut == InCallable /\ \E args \in ArgTuples(ty) : AsyncSite("AsyncFnMut", args)

AsyncCallOnce == InCallable /\ \E args \in ArgTuples(ty) : AsyncSite("AsyncFnOnce", args)

\* A call site requiring a trait the type does not implement: E0277.
RejectUnimplemented ==
    /\ InCallable
    /\ \E goal \in AsyncTraits :
          /\ Candidates(ty, goal) = {}
          /\ refused' = refused \cup {[goal |-> goal, err |-> "E0277"]}
    /\ UNCHANGED <<ty, fa, fo, clo, recon, crefused>>

\* A call site using a value that was moved by an earlier call: E0382.
RejectMoved ==
    /\ InCallable /\ ~fa.alive
    /\ \E goal \in AsyncTraits :
          /\ Candidates(ty, goal) # {}
          /\ refused' = refused \cup {[goal |-> goal, err |-> "E0382"]}
    /\ UNCHANGED <<ty, fa, fo, clo, recon, crefused>>

OrdSite(tr, args) ==
    /\ Budget /\ fo.alive
    /\ tr \in ty.ord
    /\ fo' = [(CASE tr = "Fn" -> call(ty, fo, args)
                 [] tr = "FnMut" -> call_mut(ty, fo, args)
                 [] tr = "FnOnce" -> call_once(ty, fo, args))
              EXCEPT !.via = Append(@, [goal |-> tr, args |-> args])]
    /\ UNCHANGED <<ty, fa, refused, clo, recon, crefused>>

OrdCall == InCallable /\ \E args \in ArgTuples(ty) : OrdSite("Fn", args)

OrdCallMut == InCallable /\ \E args \in ArgTuples(ty) : OrdSite("FnMut", args)

OrdCallOnce == InCallable /\ \E args \in ArgTuples(ty) : OrdSite("FnOnce", args)

\* Inference fixes the closure's kind.
InferKind ==
    /\ InClosure /\ clo.kind = "?0"
    /\ \E k \in KindTys : clo' = [clo EXCEPT !.kind = k]
    /\ UNCHANGED <<ty, fa, fo, refused, recon, crefused>>

\* A call site with a goal kind the closure's kind extends to: the upvars
\* of the goal's coroutine are projected.
ReconcileSite ==
    /\ InClosure /\ clo.kind # "?0"
    /\ \E goal \in KindTys, env \in Regions :
          /\ ClosureImplements(clo.kind, goal)
          /\ recon' = recon \cup
                {[goal |-> goal, env |-> env,
                  upvars |-> Upvars(goal, env, clo.inputs, UpvarTys(clo.caps),
                                    BorrowedUpvarsAsFnPtr(clo.caps))]}
    /\ UNCHANGED <<ty, fa, fo, refused, clo, crefused>>

\* A call site with a goal kind outside the closure's capabilities.
RejectKind ==
    /\ InClosure /\ clo.kind # "?0"
    /\ \E goal \in KindTys :
          /\ ~ClosureImplements(clo.kind, goal)
          /\ crefused' = crefused \cup {goal}
    /\ UNCHANGED <<ty, fa, fo, refused, clo, recon>>

Next ==
    \/ AsyncCall
    \/ AsyncCallMut
    \/ AsyncCallOnce
    \/ RejectUnimplemented
    \/ RejectMoved
    \/ OrdCall
    \/ OrdCallMut
    \/ OrdCallOnce
    \/ InferKind
    \/ ReconcileSite
    \/ RejectKind

Spec == Init /\ [][Next]_vars

(***************************************************************************)
(* Observations of a value, used by the properties below.                  *)
(***************************************************************************)
\* The argument tuples of the accepted call sites, in order.
SiteArgs(f) == [i \in DOMAIN f.via |-> f.via[i].args]

\* The values the body returned, in order.
Results(f) == [i \in DOMAIN f.log |-> f.log[i].res]

\* Every accepted call site of f required `goal`.
AllVia(f, goal) == \A i \in DOMAIN f.via : f.via[i].goal = goal

\* The ordinary operator an async method corresponds to.
OrdinaryOf(method) ==
    CASE method = "async_call" -> "call"
      [] method = "async_call_mut" -> "call_mut"
      [] method = "async_call_once" -> "call_once"

\* The two values ended in the same state with the same results.
SameOutcome ==
    /\ fa.st = fo.st
    /\ fa.alive = fo.alive
    /\ fa.calls = fo.calls
    /\ Results(fa) = Results(fo)

\* C1: a callable F: Fn<A> whose result is a future implements AsyncFn<A>;
\* every async call runs the body exactly once and returns the ordinary
\* call's result itself; a sequence of async_call calls ends as the same
\* sequence of call calls does.
C1_AsyncCallIsCall ==
    (InCallable /\ "Fn" \in ty.ord /\ IsFuture(ty.ret)) =>
        /\ Implements(ty, "AsyncFn")
        /\ fa.calls = Len(fa.via)
        /\ Len(fa.log) = Len(fa.via)
        /\ \A i \in DOMAIN fa.via :
              fa.via[i].goal = "AsyncFn" =>
                 /\ fa.log[i].op = "call"
                 /\ fa.log[i].args = fa.via[i].args
                 /\ fa.log[i].res =
                       BodyResult(ty, fa.log[i].pre, fa.via[i].args)
        /\ (AllVia(fa, "AsyncFn") /\ AllVia(fo, "Fn")
               /\ SiteArgs(fa) = SiteArgs(fo)) => SameOutcome

C1_Witness ==
    /\ InCallable /\ "Fn" \in ty.ord /\ IsFuture(ty.ret)
    /\ Len(fa.via) = 2 /\ AllVia(fa, "AsyncFn")
    /\ Len(fo.via) = 2 /\ AllVia(fo, "Fn")
    /\ SiteArgs(fa) = <<(<<0>>), (<<5>>)>>
    /\ SiteArgs(fo) = SiteArgs(fa)
    /\ fa.calls = 2

\* The future type of the tier a call site required.
TierFuture(goal, t) ==
    CASE goal = "AsyncFn" -> CallFuture(t)
      [] goal = "AsyncFnMut" -> CallMutFuture(t)
      [] goal = "AsyncFnOnce" -> CallOnceFuture(t)

\* C2: the offered tiers are closed under the declared supertraits (AsyncFn
\* implies AsyncFnMut implies AsyncFnOnce), call sites are accepted and
\* refused accordingly, and the converse implications fail: some type
\* offers AsyncFnOnce alone and some AsyncFnMut without AsyncFn.
C2_TierSubsumption ==
    /\ InCallable =>
          /\ \A tr \in Offered(ty) : Implied(tr) \subseteq Offered(ty)
          /\ \A i \in DOMAIN fa.via :
                \A r \in refused :
                   r.err = "E0277" => r.goal \notin Implied(fa.via[i].goal)
    /\ \E t \in CallableTypes : Offered(t) = {"AsyncFnOnce"}
    /\ \E t \in CallableTypes : Offered(t) = {"AsyncFnMut", "AsyncFnOnce"}
    /\ \E t \in CallableTypes : Offered(t) = AsyncTraits

C2_Witness ==
    /\ InCallable
    /\ Offered(ty) = {"AsyncFnMut", "AsyncFnOnce"}
    /\ [goal |-> "AsyncFn", err |-> "E0277"] \in refused
    /\ Len(fa.via) = 2
    /\ fa.via[1].goal = "AsyncFnMut"
    /\ fa.via[2].goal = "AsyncFnOnce"

\* C3: for F: Fn<A> with result type Fut, a future with Output O, the
\* derived implementation has Output = O and CallFuture = CallMutFuture =
\* CallOnceFuture = Fut; every async call returns a value of its tier's
\* future type, and the same value an ordinary call with the same argument
\* tuple returns.
C3_AssociatedTypes ==
    (InCallable /\ "Fn" \in ty.ord /\ IsFuture(ty.ret)) =>
        /\ Offered(ty) = AsyncTraits
        /\ Output(ty) = FutureOutput(ty.ret)
        /\ CallFuture(ty) = ty.ret
        /\ CallMutFuture(ty) = ty.ret
        /\ CallOnceFuture(ty) = ty.ret
        /\ (ty.args = "(i32,)" /\ ty.ret = <<"Future", "bool">>) =>
              Output(ty) = "bool" /\ CallFuture(ty) = <<"Future", "bool">>
        /\ Len(fa.log) = Len(fa.via)
        /\ \A i \in DOMAIN fa.via :
              /\ fa.log[i].res.type = TierFuture(fa.via[i].goal, ty)
              /\ \A j \in DOMAIN fo.via :
                    fo.via[j].args = fa.via[i].args =>
                       fo.log[j].res = fa.log[i].res

C3_Witness ==
    /\ InCallable
    /\ ty = [ord |-> {"Fn", "FnMut", "FnOnce"}, args |-> "(i32,)",
             ret |-> <<"Future", "bool">>]
    /\ Len(fa.via) = 1 /\ fa.via[1].goal = "AsyncFn"
    /\ fa.via[1].args = <<5>>
    /\ Len(fo.via) = 1 /\ fo.via[1].goal = "Fn"
    /\ fo.via[1].args = <<5>>
    /\ fa.log[1].res = fo.log[1].res

\* C4: a value of a type that offers only the by-value tier is consumed by
\* async_call_once: at most one call on it is accepted, and a call site
\* that uses it afterwards is refused at type-checking time.
C4_SingleUse ==
    (InCallable /\ ty.ord = {"FnOnce"}) =>
        /\ fa.calls <= 1
        /\ Len(fa.via) <= 1
        /\ Len(fa.via) = 1 =>
              /\ fa.via[1].goal = "AsyncFnOnce"
              /\ fa.log[1].op = "call_once"
              /\ ~fa.alive
        /\ \A r \in refused : r.err = "E0382" => fa.calls = 1 /\ ~fa.alive

C4_Witness ==
    /\ InCallable /\ ty.ord = {"FnOnce"}
    /\ fa.calls = 1
    /\ [goal |-> "AsyncFnOnce", err |-> "E0382"] \in refused

\* C5: a type that offers only the by-value tier does not satisfy a call
\* site requiring AsyncFn, whatever its argument tuple type: the site is
\* refused at type-checking time and no call runs for it.
C5_ByValueOnlyIsNotByRef ==
    /\ (InCallable /\ ty.ord = {"FnOnce"}) =>
          /\ Candidates(ty, "AsyncFn") = {}
          /\ \A i \in DOMAIN fa.via : fa.via[i].goal # "AsyncFn"
          /\ fa.calls = Len(fa.via)
          /\ \A r \in refused : r.goal = "AsyncFn" => r.err = "E0277"
    /\ \A t \in CallableTypes :
          t.ord = {"FnOnce"} => ~Implements(t, "AsyncFn")
    /\ (InClosure /\ clo.kind = "i32") =>
          \A r \in recon : r.goal # "i8"

C5_Witness ==
    /\ InCallable /\ ty.ord = {"FnOnce"} /\ IsFuture(ty.ret)
    /\ ty.args = "(i32,)"
    /\ [goal |-> "AsyncFn", err |-> "E0277"] \in refused
    /\ fa.calls = 0

\* The layout the reconciliation rule gives one capture under scope env.
Rescoped(c, env) ==
    IF c.mode = "ref" THEN <<"&", env, c.base>> ELSE <<c.base>>

\* C6: reconciling a closure to a lower (borrowing) goal kind under borrow
\* scope 'c gives one upvar per capture, in capture order: a by-reference
\* capture as the reference re-scoped to 'c, a by-move capture unchanged.
\* For a closure capturing T by move and &'x U by reference the projected
\* upvars are (T, &'c U).
C6_KindReconciliation ==
    InClosure =>
        \A r \in recon :
           r.goal \in {"i8", "i16"} =>
              /\ Len(r.upvars) = Len(clo.caps)
              /\ \A i \in DOMAIN clo.caps :
                    r.upvars[i] = Rescoped(clo.caps[i], r.env)
              /\ clo.caps = <<[mode |-> "move", base |-> "T"],
                              [mode |-> "ref", base |-> "U"]>> =>
                    r.upvars = <<(<<"T">>), (<<"&", r.env, "U">>)>>

C6_Witness ==
    /\ InClosure
    /\ clo.caps = <<[mode |-> "move", base |-> "T"],
                    [mode |-> "ref", base |-> "U"]>>
    /\ [goal |-> "i8", env |-> "'c",
        upvars |-> <<(<<"T">>), (<<"&", "'c", "U">>)>>] \in recon
    /\ [goal |-> "i16", env |-> "'c",
        upvars |-> <<(<<"T">>), (<<"&", "'c", "U">>)>>] \in recon

\* The tier ordering ByRef < ByMutRef < ByValue.
TierRank(tr) ==
    CASE tr = "AsyncFn" -> 0
      [] tr = "AsyncFnMut" -> 1
      [] tr = "AsyncFnOnce" -> 2

\* The offered kind is <= the goal kind in the tier ordering.
OfferedUpTo(offered, goal) == TierRank(offered) <= TierRank(goal)

\* The goal kinds for which the closure's upvars were projected.
Reconciled == {KindTrait(r.goal) : r \in recon}

\* The callable's offered kind: the offered tier that implies the others.
OfferedKind == {o \in Offered(ty) : Implied(o) = Offered(ty)}

\* The goal kinds of the callable's accepted call sites.
Accepted == {fa.via[i].goal : i \in DOMAIN fa.via}

\* C7, as amended: a call site is accepted, and a closure reconciled, only
\* when the offered kind is <= the goal kind in ByRef < ByMutRef < ByValue,
\* so a ByValue-offering closure never satisfies a ByRef goal; when the
\* offered kind exceeds the goal kind the site is refused at type-checking
\* time and no reconciliation is made for it.
C7_OfferedWithinGoal ==
    /\ (InClosure /\ clo.kind # "?0") =>
          /\ \A g \in Reconciled : OfferedUpTo(KindTrait(clo.kind), g)
          /\ \A k \in crefused :
                /\ ~OfferedUpTo(KindTrait(clo.kind), KindTrait(k))
                /\ KindTrait(k) \notin Reconciled
          /\ \A k \in KindTys :
                ClosureImplements(clo.kind, k) <=>
                   OfferedUpTo(KindTrait(clo.kind), KindTrait(k))
          /\ clo.kind = "i32" => "AsyncFn" \notin Reconciled
    /\ InCallable =>
          /\ \A g \in Accepted : \A o \in OfferedKind : OfferedUpTo(o, g)
          /\ \A r \in refused : \A o \in OfferedKind :
                r.err = "E0277" =>
                   ~OfferedUpTo(o, r.goal) /\ r.goal \notin Accepted

C7_Witness ==
    /\ InClosure /\ clo.kind = "i16"
    /\ "i8" \in crefused
    /\ Reconciled = {"AsyncFnMut", "AsyncFnOnce"}

\* C7, as claimed: every accepted or reconciled call site has goal kind <=
\* offered kind in ByRef < ByMutRef < ByValue, a goal above the offered
\* kind is never reconciled, and a ByValue-offering closure never satisfies
\* a ByRef goal.
C7_GoalWithinOffered ==
    /\ (InClosure /\ clo.kind # "?0") =>
          /\ \A g \in Reconciled : OfferedUpTo(g, KindTrait(clo.kind))
          /\ \A k \in KindTys :
                ~OfferedUpTo(KindTrait(k), KindTrait(clo.kind)) =>
                   KindTrait(k) \notin Reconciled
          /\ clo.kind = "i32" => "AsyncFn" \notin Reconciled
    /\ InCallable =>
          \A g \in Accepted : \A o \in OfferedKind : OfferedUpTo(g, o)

\* C8, as amended: resolution is deterministic: a call site whose requested
\* tier the callable offers selects exactly one implementation, that of the
\* requested tier, the same at every such site; a call site whose requested
\* tier is not offered selects none and is refused at type-checking time;
\* no requested tier is both accepted and refused as unimplemented.
C8_ResolutionDeterministic ==
    InCallable =>
        /\ \A g \in AsyncTraits : Cardinality(Candidates(ty, g)) <= 1
        /\ \A i \in DOMAIN fa.via :
              /\ Candidates(ty, fa.via[i].goal) = {fa.via[i].impl}
              /\ fa.via[i].impl.trait = fa.via[i].goal
              /\ fa.log[i].op = OrdinaryOf(fa.via[i].impl.method)
        /\ \A r \in refused :
              r.err = "E0277" =>
                 /\ Candidates(ty, r.goal) = {}
                 /\ \A i \in DOMAIN fa.via : fa.via[i].goal # r.goal

C8_Witness ==
    /\ InCallable
    /\ Offered(ty) = {"AsyncFnMut", "AsyncFnOnce"}
    /\ Len(fa.via) = 2
    /\ fa.via[1].goal = "AsyncFnMut" /\ fa.via[2].goal = "AsyncFnMut"
    /\ fa.via[1].impl = fa.via[2].impl
    /\ [goal |-> "AsyncFn", err |-> "E0277"] \in refused

\* C8, as claimed: resolution is total: every call site selects exactly
\* one implementation, so none ends without one.
C8_ResolutionTotal ==
    InCallable =>
        /\ \A i \in DOMAIN fa.via :
              Candidates(ty, fa.via[i].goal) = {fa.via[i].impl}
        /\ \A r \in refused : Cardinality(Candidates(ty, r.goal)) = 1

\* C9: each derived async method forwards to its own ordinary operator
\* only, running the body once per call; for a callable F: FnMut<A> with a
\* future result, a sequence of async_call_mut calls leaves the callable in
\* the same state and returns the same results in the same order as the
\* same sequence of call_mut calls, each result being the body's own value.
C9_ForwardsToOwnTier ==
    (InCallable /\ "FnMut" \in ty.ord /\ IsFuture(ty.ret)) =>
        /\ Implements(ty, "AsyncFnMut")
        /\ fa.calls = Len(fa.via)
        /\ Len(fa.log) = Len(fa.via)
        /\ \A i \in DOMAIN fa.via :
              /\ fa.log[i].op = OrdinaryOf(fa.via[i].impl.method)
              /\ fa.via[i].goal = "AsyncFn" => fa.log[i].op = "call"
              /\ fa.via[i].goal = "AsyncFnMut" => fa.log[i].op = "call_mut"
              /\ fa.via[i].goal = "AsyncFnOnce" => fa.log[i].op = "call_once"
              /\ fa.log[i].res =
                    BodyResult(ty, fa.log[i].pre, fa.via[i].args)
        /\ (AllVia(fa, "AsyncFnMut") /\ AllVia(fo, "FnMut")
               /\ SiteArgs(fa) = SiteArgs(fo)) => SameOutcome

C9_Witness ==
    /\ InCallable /\ ty.ord = {"FnMut", "FnOnce"} /\ IsFuture(ty.ret)
    /\ Len(fa.via) = 2 /\ AllVia(fa, "AsyncFnMut")
    /\ Len(fo.via) = 2 /\ AllVia(fo, "FnMut")
    /\ SiteArgs(fa) = <<(<<5>>), (<<5>>)>>
    /\ SiteArgs(fo) = SiteArgs(fa)
    /\ fa.log[1].res # fa.log[2].res
    /\ fa.st = fo.st /\ fa.st > 0

\* C10: a callable whose result type is not a future implements none of
\* AsyncFn, AsyncFnMut, AsyncFnOnce; every call site requiring an async
\* tier of it is refused as unimplemented and the callable is never run
\* through an async tier.
C10_NonFutureOffersNothing ==
    (InCallable /\ ~IsFuture(ty.ret)) =>
        /\ Offered(ty) = {}
        /\ \A g \in AsyncTraits : Candidates(ty, g) = {}
        /\ fa = Fresh
        /\ \A r \in refused : r.err = "E0277"

C10_Witness ==
    /\ InCallable /\ ~IsFuture(ty.ret)
    /\ ty.ord = {"Fn", "FnMut", "FnOnce"}
    /\ {r.goal : r \in refused} = AsyncTraits
    /\ fo.calls = 2
    /\ fa.calls = 0

====
